---- MODULE Spec2Model ----
(***************************************************************************)
(* CareerFlow AI: the waterfall job-discovery pipeline of App.tsx          *)
(* (handleProcessAll) together with the two revisions of the search        *)
(* service (services/geminiService.ts and its later revision) that the     *)
(* repository holds.  Strings are TLA+ strings; the JavaScript string and  *)
(* URL primitives the code uses are defined character by character.        *)
(***************************************************************************)
EXTENDS Integers, Sequences, FiniteSets, TLC

\* ------------------------------------------------------------------------
\* JavaScript values
\* ------------------------------------------------------------------------

\* null in a string-typed position (task.url, error)
NULL == "<null>"

\* null in an object-typed position (analysisResult, jobResults)
NullObj == [null |-> TRUE]

\* ------------------------------------------------------------------------
\* JavaScript string primitives
\* ------------------------------------------------------------------------

StartsWith(s, p) == Len(s) >= Len(p) /\ SubSeq(s, 1, Len(p)) = p

EndsWith(s, p) == Len(s) >= Len(p) /\ SubSeq(s, Len(s) - Len(p) + 1, Len(s)) = p

Includes(s, p) == \E i \in 1..(Len(s) - Len(p) + 1) : SubSeq(s, i, i + Len(p) - 1) = p

\* s.substring(n) with n counted from 0
DropFirst(s, n) == SubSeq(s, n + 1, Len(s))

LowerChar(c) ==
    CASE c = "A" -> "a" [] c = "B" -> "b" [] c = "C" -> "c" [] c = "D" -> "d"
      [] c = "E" -> "e" [] c = "F" -> "f" [] c = "G" -> "g" [] c = "H" -> "h"
      [] c = "I" -> "i" [] c = "J" -> "j" [] c = "K" -> "k" [] c = "L" -> "l"
      [] c = "M" -> "m" [] c = "N" -> "n" [] c = "O" -> "o" [] c = "P" -> "p"
      [] c = "Q" -> "q" [] c = "R" -> "r" [] c = "S" -> "s" [] c = "T" -> "t"
      [] c = "U" -> "u" [] c = "V" -> "v" [] c = "W" -> "w" [] c = "X" -> "x"
      [] c = "Y" -> "y" [] c = "Z" -> "z" [] OTHER -> c

RECURSIVE ToLowerCase(_)
ToLowerCase(s) ==
    IF s = "" THEN "" ELSE LowerChar(SubSeq(s, 1, 1)) \o ToLowerCase(DropFirst(s, 1))

RECURSIVE TrimStart(_)
TrimStart(s) == IF StartsWith(s, " ") THEN TrimStart(DropFirst(s, 1)) ELSE s

RECURSIVE TrimEnd(_)
TrimEnd(s) == IF EndsWith(s, " ") THEN TrimEnd(SubSeq(s, 1, Len(s) - 1)) ELSE s

Trim(s) == TrimEnd(TrimStart(s))

\* the positions of the dots of s, in increasing order
DotPositions(s) == {i \in 1..Len(s) : SubSeq(s, i, i) = "."}

\* s.split('.')[0]
FirstLabel(s) ==
    IF DotPositions(s) = {} THEN s
    ELSE SubSeq(s, 1, (CHOOSE i \in DotPositions(s) : \A j \in DotPositions(s) : i <= j) - 1)

\* s.split('.').slice(-2).join('.') when s has more than two labels, else s
LastTwoLabels(s) ==
    IF Cardinality(DotPositions(s)) < 2 THEN s
    ELSE LET last == CHOOSE i \in DotPositions(s) : \A j \in DotPositions(s) : j <= i
             prev == CHOOSE i \in DotPositions(s) \ {last} :
                        \A j \in DotPositions(s) \ {last} : j <= i
         IN  DropFirst(s, prev)

\* ------------------------------------------------------------------------
\* new URL(s): the WHATWG parser restricted to the strings of this model
\* (http and https URLs, and strings without a scheme, which do not parse)
\* ------------------------------------------------------------------------

\* the part of s before the first character of the set stops
RECURSIVE UpTo(_, _)
UpTo(s, stops) ==
    IF s = "" \/ SubSeq(s, 1, 1) \in stops THEN ""
    ELSE SubSeq(s, 1, 1) \o UpTo(DropFirst(s, 1), stops)

\* what follows the scheme of the lower-cased string l; "" when l has no
\* http or https scheme
AfterScheme(l) ==
    IF StartsWith(l, "https://") THEN DropFirst(l, 8)
    ELSE IF StartsWith(l, "http://") THEN DropFirst(l, 7)
    ELSE ""

\* the URL whose host is host: an empty host or one with a space does not parse
UrlOfHost(host) == [ok |-> host # "" /\ ~Includes(host, " "), hostname |-> host]

\* [ok, hostname]: ok = FALSE stands for the TypeError new URL throws
ParseUrl(s) == UrlOfHost(UpTo(AfterScheme(ToLowerCase(s)), {"/", "?", "#", ":"}))

\* ------------------------------------------------------------------------
\* Array helpers
\* ------------------------------------------------------------------------

\* a sequence written as a function, as the tuple of its elements (TLC keeps
\* a function constructor unevaluated until it is applied)
Array(f) == SubSeq(f, 1, Len(f))

\* Array.prototype.flatMap over a sequence of sequences
RECURSIVE Flatten(_)
Flatten(ss) == IF ss = <<>> THEN <<>> ELSE Head(ss) \o Flatten(Tail(ss))

\* Array.prototype.slice(0, n)
Slice(s, n) == SubSeq(s, 1, IF Len(s) < n THEN Len(s) ELSE n)

\* ------------------------------------------------------------------------
\* App.tsx: the Source Query Planner of handleProcessAll
\* ------------------------------------------------------------------------

\* constants.ts: the preset career sites (Google, Microsoft, Apple)
PRESET_JOB_BOARDS ==
    << "https://careers.google.com",
       "https://careers.microsoft.com",
       "https://jobs.apple.com" >>

\* presetDistribution.set(url, (presetDistribution.get(url) || 0) + 1); the Map
\* is a sequence of entries in insertion order
MapIncrement(map, url) ==
    IF \E k \in 1..Len(map) : map[k].url = url
    THEN [map EXCEPT ![CHOOSE k \in 1..Len(map) : map[k].url = url].limit = @ + 1]
    ELSE Append(map, [url |-> url, limit |-> 1])

\* the loop with the preset index taken one position late
RECURSIVE presetDistributionShifted(_, _, _)
presetDistributionShifted(i, map, count) ==
    IF i >= count THEN map
    ELSE presetDistributionShifted(i + 1,
             MapIncrement(map, PRESET_JOB_BOARDS[((i + 1) % Len(PRESET_JOB_BOARDS)) + 1]),
             count)

\* for (let i = 0; i < jobCount; i++) { ... }
RECURSIVE presetDistribution(_, _, _)
presetDistribution(i, map, count) ==
    IF i >= count THEN map
    ELSE presetDistribution(i + 1,
             MapIncrement(map, PRESET_JOB_BOARDS[(i % Len(PRESET_JOB_BOARDS)) + 1]),
             count)

\* let url = targetUrl.trim(); if (!url.startsWith('http')) url = 'https://' + url;
\* tasks.push({ type: 'USER', url, priority: 1, limit: jobCount })
UserTask(url, count) ==
    [type |-> "USER",
     url |-> IF ~StartsWith(url, "http") THEN "https://" \o url ELSE url,
     priority |-> 1, limit |-> count]

\* the USER task guarded by targetUrl alone, without the trim
UserTasksUntrimmed(url, count) ==
    IF url # "" THEN << UserTask(Trim(url), count) >> ELSE <<>>

\* the USER task, when targetUrl.trim() is not empty
UserTasks(url, count) ==
    IF Trim(url) # "" THEN << UserTask(Trim(url), count) >> ELSE <<>>

\* presetDistribution.forEach((limit, url) => ...): a preset already queued is skipped
RECURSIVE PushPresets(_, _)
PushPresets(list, map) ==
    IF map = <<>> THEN list
    ELSE IF \E k \in 1..Len(list) : list[k].url = Head(map).url
         THEN PushPresets(list, Tail(map))
         ELSE PushPresets(Append(list, [type |-> "PRESET", url |-> Head(map).url,
                                        priority |-> 2, limit |-> Head(map).limit]),
                          Tail(map))

\* a planner that falls back to the open search only when no site is targeted
PlanTasksOpenAsFallback(url, count) ==
    IF UserTasks(url, count) # <<>>
    THEN PushPresets(UserTasks(url, count), presetDistribution(0, <<>>, count))
    ELSE Append(PushPresets(<<>>, presetDistribution(0, <<>>, count)),
                [type |-> "OPEN", url |-> NULL, priority |-> 3, limit |-> count])

\* the task list built between lines 85 and 112
PlanTasks(url, count) ==
    Append(PushPresets(UserTasks(url, count), presetDistribution(0, <<>>, count)),
           [type |-> "OPEN", url |-> NULL, priority |-> 3, limit |-> count])

\* ------------------------------------------------------------------------
\* Inputs of the model
\* ------------------------------------------------------------------------

\* what the user types into the target URL field
UrlInputs == {"", "jobs.acme.com ", "https://jobs.apple.com"}

\* the target URLs the planner is applied to
PlannerUrlInputs ==
    UrlInputs \cup {"  ", "httpbin.org/jobs", "jobs.apple.com/", "http://acme.com"}

\* the largest value the job count field accepts
MaxJobCount == 20

\* what parseInt(e.target.value) yields: NaN or an integer
JobCountInputs ==
    {[nan |-> TRUE, n |-> 0]} \cup {[nan |-> FALSE, n |-> k] : k \in {0, 2, 3, MaxJobCount + 1}}

\* the values the job count field can hold
JobCounts == 1..MaxJobCount

\* FileUpload contents: empty or some text
DocInputs == {"", "text"}

\* grounding chunks the search may return
A1 == [title |-> "Senior Backend Engineer - Job ID 48213", uri |-> "https://jobs.acme.com/job/48213"]
A2 == [title |-> "Senior Backend Engineer - Job ID 48213", uri |-> "https://Jobs.Acme.com/job/48213/"]
G1 == [title |-> "Jobs at Acme", uri |-> "https://boards.greenhouse.io/acme/jobs/7"]
X1 == [title |-> "SRE | Indeed", uri |-> "https://www.indeed.com/viewjob?jk=1"]
S1 == [title |-> "Search Results | Careers", uri |-> "https://jobs.acme.com/search"]
P1 == [title |-> "ML Engineer", uri |-> "https://jobs.apple.com/en-us/details/200"]
B1 == [title |-> "Platform Engineer", uri |-> "jobs.acme.com/job/9"]

L1 == [title |-> "Login | Acme Careers", uri |-> "https://jobs.acme.com/job/77"]
N1 == [title |-> "Error 404 - Page Not Found", uri |-> "https://www.indeed.com/viewjob?jk=404"]
R1 == [title |-> "Acme Careers", uri |-> "https://www.jobs.acme.com/"]
R2 == [title |-> "Acme Careers - English", uri |-> "https://jobs.acme.com/en"]
R3 == [title |-> "Open Roles - Acme", uri |-> "https://jobs.acme.com/roles"]
T1 == [title |-> "Data Engineer", uri |-> "https://jobs.lever.co/acme/123"]
M1 == [title |-> "Acme is hiring a Designer", uri |-> "https://www.linkedin.com/jobs/view/5"]
J1 == [title |-> "Jobs at Acme | LinkedIn", uri |-> "https://www.linkedin.com/company/acme/jobs"]
H1 == [title |-> "iOS Engineer", uri |-> "https://me.com/jobs/12"]
D1 == [title |-> "Senior Backend Engineer (Remote)", uri |-> "https://jobs.acme.com/job/48213"]

\* what one grounded search call may answer
Responses == { <<>>, <<X1, A1, G1>>, <<A2, S1, P1, B1>> }

\* answers that put one question each to the classifier: denylisted titles,
\* the target itself and near copies of it, every tier of the score, and a
\* uri that does not parse; the last answer holds one uri twice and more
\* links than a task asks for
ClassifierResponses ==
    { <<L1, S1>>, <<N1, X1>>, <<R1, A1>>, <<R2, R3>>,
      <<T1, M1>>, <<J1, G1>>, <<B1, P1>>, <<X1, H1>>, <<X1, A1, D1, T1>> }

\* the messages of the errors an external call may reject with
SoftMessage == "fetch failed"
RateLimitMessage == "429 Too Many Requests"
QuotaMessage == "got status: 429. RESOURCE_EXHAUSTED: quota exceeded"
ErrorMessages == {SoftMessage, RateLimitMessage, QuotaMessage}

\* what ai.models.generateContent settles with, for a search call
SearchOutcomes ==
    {[ok |-> TRUE, chunks |-> c] : c \in Responses}
        \cup {[ok |-> FALSE, message |-> m] : m \in ErrorMessages}

\* the search calls that succeed with a classifier answer
ClassifierOutcomes == {[ok |-> TRUE, chunks |-> c] : c \in ClassifierResponses}

\* what analyzeDocuments' call settles with
AnalysisOutcomes ==
    {[ok |-> TRUE, keywords |-> <<"Python", "Kubernetes", "gRPC">>]}
        \cup {[ok |-> FALSE, message |-> m] : m \in ErrorMessages}

\* ------------------------------------------------------------------------
\* the task targets the planner can produce from the inputs of the model
\* ------------------------------------------------------------------------

TargetUrls ==
    UNION {{PlanTasks(u, MaxJobCount)[k].url : k \in 1..Len(PlanTasks(u, MaxJobCount))} :
              u \in PlannerUrlInputs} \ {NULL}

\* ------------------------------------------------------------------------
\* services/geminiService: shared helpers
\* ------------------------------------------------------------------------

\* the message of the Error getClient throws when process.env.API_KEY is unset
KeyMissingMessage == "API Key is missing. Please check your environment configuration."

KeyMissingMessage2 == "Gemini API Key is missing. If running locally, ensure process.env.API_KEY is defined in your environment or .env file. If in AI Studio, ensure a key is selected or configured for the project."

\* checkForGeminiError, on the message of an Error
checkForGeminiError(msg) ==
    \/ Includes(msg, "RESOURCE_EXHAUSTED")
    \/ Includes(msg, "429")
    \/ Includes(msg, "API Key is missing")
    \/ Includes(msg, "API_KEY_INVALID")

\* the body of getRootDomain's try, and its catch: u is what new URL gave
RootOf(u, url) == IF u.ok THEN LastTwoLabels(u.hostname) ELSE url

\* getRootDomain; a null url makes url.startsWith throw inside the try, and
\* the catch returns the argument unchanged
getRootDomain(url) ==
    IF url = NULL THEN NULL
    ELSE RootOf(ParseUrl(IF StartsWith(url, "http") THEN url ELSE "https://" \o url), url)

\* u.replace(/^https?:\/\/(www\.)?/, '')
StripSchemeWww(u) ==
    IF StartsWith(u, "https://www.") THEN DropFirst(u, 12)
    ELSE IF StartsWith(u, "https://") THEN DropFirst(u, 8)
    ELSE IF StartsWith(u, "http://www.") THEN DropFirst(u, 11)
    ELSE IF StartsWith(u, "http://") THEN DropFirst(u, 7)
    ELSE u

\* u.replace(/\/$/, '')
StripTrailingSlash(u) == IF EndsWith(u, "/") THEN SubSeq(u, 1, Len(u) - 1) ELSE u

\* normalize = u.toLowerCase().replace(/\/$/, '').replace(/^https?:\/\/(www\.)?/, '')
normalize(u) == StripSchemeWww(StripTrailingSlash(ToLowerCase(u)))

\* the grounding chunks that carry a web uri and a title become links
ExtractLinks(chunks) == SelectSeq(chunks, LAMBDA c : c.uri # "" /\ c.title # "")

Invalid(link) == [link |-> link, score |-> -1, valid |-> FALSE]

\* (a, b) => b.score - a.score
ByScoreDesc(a, b) == b.score - a.score

\* .sort((a, b) => b.score - a.score): Array.prototype.sort is stable, and orders a before b when the
\* comparator is negative
SortByScore(s) ==
    LET rank(i) == 1 + Cardinality({j \in 1..Len(s) :
                        \/ ByScoreDesc(s[j], s[i]) < 0
                        \/ (ByScoreDesc(s[j], s[i]) = 0 /\ j < i)})
    IN  Array([k \in 1..Len(s) |-> s[CHOOSE i \in 1..Len(s) : rank(i) = k]])

\* the loop without the seen set: at most limit links
RECURSIVE FirstLinks(_, _, _, _)
FirstLinks(items, seen, out, limit) ==
    IF items = <<>> \/ Len(out) >= limit THEN out
    ELSE LET l == Head(items).link
         IN  FirstLinks(Tail(items), seen, Append(out, [title |-> l.title, uri |-> l.uri]), limit)

\* the dedupe loop: first occurrence per uri, at most limit links
RECURSIVE UniqueByUri(_, _, _, _)
UniqueByUri(items, seen, out, limit) ==
    IF items = <<>> \/ Len(out) >= limit THEN out
    ELSE LET l == Head(items).link
         IN  IF l.uri \in seen
             THEN UniqueByUri(Tail(items), seen, out, limit)
             ELSE UniqueByUri(Tail(items), seen \cup {l.uri},
                              Append(out, [title |-> l.title, uri |-> l.uri]), limit)

\* ------------------------------------------------------------------------
\* services/geminiService.ts: findRelevantJobs
\* ------------------------------------------------------------------------

badTitlePatterns ==
    {"not found", "error", "404", "job closed", "closed job",
     "no longer available", "login", "sign in", "search results"}

atsDomains ==
    {"greenhouse.io", "lever.co", "workday", "ashby", "smartrecruiters",
     "icims", "jobvite", "taleo", "bamboohr", "recruitee", "workable"}

\* the tiers without the "Jobs at" penalty
ScoreWithoutPenalty(isRootMatch, isAts, titleMentionsCompany, jobsAt) ==
    IF isRootMatch THEN 100
    ELSE IF isAts THEN 80
    ELSE IF titleMentionsCompany THEN 50
    ELSE 10

\* 2. Scoring: the tier of the link's host, and the "Jobs at" penalty
Score(isRootMatch, isAts, titleMentionsCompany, jobsAt) ==
    (IF isRootMatch THEN 100
     ELSE IF isAts THEN 80
     ELSE IF titleMentionsCompany THEN 50
     ELSE 10)
    - (IF jobsAt /\ ~isRootMatch THEN 20 ELSE 0)

\* the body of links.map(link => ...) on the values it computes first:
\* linkUrl = new URL(link.uri), lowerTitle = the trimmed title in lower case
\* (every pattern is case-insensitive), normalizedLink, rootDomain and
\* normalizedTarget
Classify(link, linkUrl, lowerTitle, normalizedLink, rootDomain, normalizedTarget) ==
    IF ~linkUrl.ok THEN Invalid(link)
    ELSE IF /\ \E p \in badTitlePatterns : Includes(lowerTitle, p)
            /\ Includes(lowerTitle, "search results")
         THEN Invalid(link)
    ELSE IF normalizedLink = normalizedTarget THEN Invalid(link)
    ELSE IF /\ StartsWith(normalizedLink, normalizedTarget)
            /\ Len(normalizedLink) < Len(normalizedTarget) + 5
         THEN Invalid(link)
    ELSE [link  |-> link,
          score |-> Score(\/ Includes(linkUrl.hostname, rootDomain)
                          \/ Includes(rootDomain, linkUrl.hostname),
                          \E d \in atsDomains : Includes(linkUrl.hostname, d),
                          Includes(lowerTitle, FirstLabel(rootDomain)),
                          StartsWith(lowerTitle, "jobs at ")),
          valid |-> TRUE]

\* one link classified against the target
ScoreLink(link, target) ==
    Classify(link, ParseUrl(link.uri), ToLowerCase(Trim(link.title)), normalize(link.uri),
             getRootDomain(target), normalize(target))

\* links.map(link => ...)
ScoredLinks(links, target) ==
    Array([i \in 1..Len(links) |-> ScoreLink(links[i], target)])

\* the sort without the filter before it
ValidLinksUnfiltered(chunks, target) ==
    SortByScore(ScoredLinks(ExtractLinks(chunks), target))

\* scoredLinks.filter(item => item.valid).sort((a, b) => b.score - a.score)
ValidLinks(chunks, target) ==
    SortByScore(SelectSeq(ScoredLinks(ExtractLinks(chunks), target),
                          LAMBDA item : item.valid))

\* ValidLinks on the responses and targets of the model, evaluated once
ValidLinksMemo ==
    {<<c, u, ValidLinks(c, u)>> : c \in Responses \cup ClassifierResponses, u \in TargetUrls}

validLinks(chunks, target) ==
    (CHOOSE m \in ValidLinksMemo : m[1] = chunks /\ m[2] = target)[3]

\* findRelevantJobs(keywords, targetUrl, limit) once the client exists; ext is
\* what ai.models.generateContent settles with.  A null targetUrl reaches
\* normalize(targetUrl) after the response and throws a TypeError there.
findRelevantJobs(ext, target, limit) ==
    IF ~ext.ok THEN [ok |-> FALSE, message |-> ext.message]
    ELSE IF target = NULL
         THEN [ok |-> FALSE,
               message |-> "Cannot read properties of null (reading 'toLowerCase')"]
    ELSE [ok |-> TRUE,
          links |-> UniqueByUri(validLinks(ext.chunks, target), {}, <<>>, limit)]

\* ------------------------------------------------------------------------
\* the later revision of the service: findRelevantJobs(keywords,
\* targetUrl: string | null, limit)
\* ------------------------------------------------------------------------

badTitlePatterns2 == {"not found", "error", "404", "job closed", "search results"}

atsDomains2 == {"greenhouse.io", "lever.co", "workday", "ashby", "smartrecruiters", "taleo"}

\* the score of a link: against a target, or of the open search
Score2(hasTarget, isRootMatch, isAts) ==
    IF hasTarget
    THEN IF isRootMatch THEN 100 ELSE IF isAts THEN 80 ELSE 10
    ELSE IF isAts THEN 80 ELSE 50

\* the body of links.map(link => ...) on the values it computes first;
\* hasTarget is the truthiness of targetUrl
Classify2(link, linkUrl, lowerTitle, normalizedLink, hasTarget, rootDomain, normalizedTarget) ==
    IF ~linkUrl.ok THEN Invalid(link)
    ELSE IF /\ \E p \in badTitlePatterns2 : Includes(lowerTitle, p)
            /\ Includes(lowerTitle, "search results")
         THEN Invalid(link)
    ELSE IF hasTarget /\ normalizedLink = normalizedTarget THEN Invalid(link)
    ELSE [link  |-> link,
          score |-> Score2(hasTarget,
                           Includes(linkUrl.hostname, rootDomain),
                           \E d \in atsDomains2 : Includes(linkUrl.hostname, d)),
          valid |-> TRUE]

\* if (targetUrl) rootDomain = getRootDomain(targetUrl), else ""
RootDomain2(target) ==
    IF target # NULL /\ target # "" THEN getRootDomain(target) ELSE ""

\* targetUrl ? normalize(targetUrl) : ""
NormalizedTarget2(target) ==
    IF target # NULL /\ target # "" THEN normalize(target) ELSE ""

ScoreLink2(link, target) ==
    Classify2(link, ParseUrl(link.uri), ToLowerCase(Trim(link.title)), normalize(link.uri),
              target # NULL /\ target # "", RootDomain2(target), NormalizedTarget2(target))

ScoredLinks2(links, target) ==
    Array([i \in 1..Len(links) |-> ScoreLink2(links[i], target)])

ValidLinks2(chunks, target) ==
    SortByScore(SelectSeq(ScoredLinks2(ExtractLinks(chunks), target),
                          LAMBDA item : item.valid))

\* ValidLinks2 on the responses and targets of the model, evaluated once
ValidLinksMemo2 ==
    {<<c, u, ValidLinks2(c, u)>> :
        c \in Responses \cup ClassifierResponses, u \in TargetUrls \cup {NULL}}

validLinks2(chunks, target) ==
    (CHOOSE m \in ValidLinksMemo2 : m[1] = chunks /\ m[2] = target)[3]

\* the catch block: a Gemini error is rewrapped, any other is rethrown
SearchErrorMessage(msg) ==
    IF checkForGeminiError(msg) THEN "Search Error: " \o msg ELSE msg

findRelevantJobs2(ext, target, limit) ==
    IF ~ext.ok THEN [ok |-> FALSE, message |-> SearchErrorMessage(ext.message)]
    ELSE [ok |-> TRUE,
          links |-> UniqueByUri(validLinks2(ext.chunks, target), {}, <<>>, limit)]

\* ------------------------------------------------------------------------
\* App.tsx: the per-task handler and the Aggregator of handleProcessAll
\* ------------------------------------------------------------------------

QuotaMarker == "RESOURCE_EXHAUSTED"

\* a handler whose catch never rethrows
TaskHandlerSwallowAll(r, task) ==
    IF r.ok THEN [state |-> "fulfilled", links |-> r.links, priority |-> task.priority]
    ELSE [state |-> "fulfilled", links |-> <<>>, priority |-> task.priority]

\* a handler whose catch always rethrows
TaskHandlerRethrowAll(r, task) ==
    IF r.ok THEN [state |-> "fulfilled", links |-> r.links, priority |-> task.priority]
    ELSE [state |-> "rejected", message |-> r.message]

\* a handler whose catch issues the call again after a failure without the
\* quota marker, and returns the promise of the second attempt
TaskHandlerRetry(r, task) ==
    IF r.ok THEN [state |-> "fulfilled", links |-> r.links, priority |-> task.priority]
    ELSE IF Includes(r.message, QuotaMarker)
         THEN [state |-> "rejected", message |-> r.message]
         ELSE [state |-> "pending", links |-> <<>>, priority |-> task.priority]

\* .then(res => ({...res, priority})) and .catch(err => ...) on one search
\* promise; r is what findRelevantJobs settled with
TaskHandler(r, task) ==
    IF r.ok THEN [state |-> "fulfilled", links |-> r.links, priority |-> task.priority]
    ELSE IF Includes(r.message, QuotaMarker)
         THEN [state |-> "rejected", message |-> r.message]
         ELSE [state |-> "fulfilled", links |-> <<>>, priority |-> task.priority]

\* results.flatMap(r => r.links.map(link => ({ ...link, priority: r.priority })))
AllLinks(results) ==
    Flatten(Array([k \in 1..Len(results) |->
                Array([n \in 1..Len(results[k].links) |->
                    [link |-> results[k].links[n], priority |-> results[k].priority]])]))

\* the comparator with its operands exchanged
ByPriorityDescending(a, b) == b.priority - a.priority

\* (a, b) => a.priority - b.priority
ByPriority(a, b) == a.priority - b.priority

\* allLinks.sort((a, b) => a.priority - b.priority): Array.prototype.sort is stable, and orders a before b when the
\* comparator is negative
SortByPriority(s) ==
    LET rank(i) == 1 + Cardinality({j \in 1..Len(s) :
                        \/ ByPriority(s[j], s[i]) < 0
                        \/ (ByPriority(s[j], s[i]) = 0 /\ j < i)})
    IN  Array([k \in 1..Len(s) |-> s[CHOOSE i \in 1..Len(s) : rank(i) = k]])

\* the dedupe loop of the aggregator: first occurrence per uri, no limit
Deduplicate(items) == UniqueByUri(items, {}, <<>>, Len(items))

\* { title: item.title, uri: item.uri } for every item, duplicates included
PlainLinks(items) ==
    Array([n \in 1..Len(items) |-> [title |-> items[n].link.title, uri |-> items[n].link.uri]])

\* the aggregation without the final slice
FinalLinksUnsliced(results, count) == Deduplicate(SortByPriority(AllLinks(results)))

\* the aggregation without the deduplication loop
FinalLinksPooled(results, count) == Slice(PlainLinks(SortByPriority(AllLinks(results))), count)

\* the aggregation that keeps the last jobCount links: slice(-jobCount)
FinalLinksLastN(results, count) ==
    LET all == Deduplicate(SortByPriority(AllLinks(results)))
    IN  SubSeq(all, IF Len(all) > count THEN Len(all) - count + 1 ELSE 1, Len(all))

\* sort by priority, deduplicate by uri, slice to jobCount
FinalLinks(results, count) == Slice(Deduplicate(SortByPriority(AllLinks(results))), count)

\* ------------------------------------------------------------------------
\* State
\* ------------------------------------------------------------------------

VARIABLES
    service,              \* which revision of services/geminiService is built: 1 or 2
    resume, coverLetter,  \* InputData.data of the two documents
    targetUrl, jobCount,  \* job search inputs
    status, analysisResult, jobResults, error,
    showApiKeyModal, apiKeyCheckDone, isInitialApiKeyCheck,
    pc,                   \* where handleProcessAll is: "none", "analysis", "search", "returned"
    tasks,                \* the task list of the current run
    calls                 \* searchPromises: per task "pending", "fulfilled" or "rejected"

\* the JobSearch component that displays the response
VARIABLES
    generatingForUri, applicationData, selectedJobTitle, modalError,
    drafts,               \* the links whose generateApplicationData call is in flight
    consoleError          \* the message of the error handleAutoFill last caught and logged

\* the posting named in the prompt that the data on display answers
VARIABLE draftedFor

\* the runs of handleProcessAll that were started before the current one and
\* are still awaited, each with the values its closure holds
VARIABLE earlier

\* the two FileUpload components, by label
VARIABLES
    activeTab, isProcessing,
    reading               \* the file read that is in flight: "none", "pdf", "docx", "text"

vars == << service, resume, coverLetter, targetUrl, jobCount, status, analysisResult,
           jobResults, error, showApiKeyModal, apiKeyCheckDone, isInitialApiKeyCheck,
           pc, tasks, calls,
           generatingForUri, applicationData, selectedJobTitle, modalError, drafts,
           consoleError, draftedFor, earlier, activeTab, isProcessing, reading >>

draftVars == << generatingForUri, applicationData, selectedJobTitle, modalError, drafts,
                consoleError, draftedFor >>

uploadVars == << activeTab, isProcessing, reading >>

\* the component as it mounts
DraftIdle ==
    /\ generatingForUri = NULL /\ applicationData = NullObj
    /\ selectedJobTitle = "" /\ modalError = NULL
    /\ drafts = <<>> /\ consoleError = NULL
    /\ draftedFor = NullObj

\* the labels of the two FileUpload components of the editor
Labels == {"Resume", "Cover Letter"}

\* the FileUpload components as they mount
UploadIdle ==
    /\ activeTab = [l \in Labels |-> "upload"]
    /\ isProcessing = [l \in Labels |-> FALSE]
    /\ reading = [l \in Labels |-> "none"]

inputVars == << resume, coverLetter, targetUrl, jobCount >>
runVars == << pc, tasks, calls >>
keyVars == << showApiKeyModal, apiKeyCheckDone, isInitialApiKeyCheck >>
resultVars == << status, analysisResult, jobResults, error >>

Pending == [state |-> "pending"]

Init ==
    /\ service \in {1, 2}
    /\ resume = "" /\ coverLetter = ""
    /\ targetUrl = "" /\ jobCount = 5
    /\ status = "idle" /\ analysisResult = NullObj /\ jobResults = NullObj /\ error = NULL
    /\ showApiKeyModal = FALSE /\ apiKeyCheckDone = FALSE /\ isInitialApiKeyCheck = FALSE
    /\ pc = "none" /\ tasks = <<>> /\ calls = <<>>
    /\ DraftIdle /\ UploadIdle /\ earlier = <<>>

\* ------------------------------------------------------------------------
\* The editor
\* ------------------------------------------------------------------------

\* the input section is rendered and accepts pointer events
EditorEnabled == status # "success" /\ status # "analyzing" /\ ~showApiKeyModal

\* the promises of a run that has returned are followed until the user's next
\* input; nothing reads them afterwards.  A run that is still awaited goes on.
ForgetRun ==
    IF pc \in {"analysis", "search"}
    THEN UNCHANGED << pc, tasks, calls >>
    ELSE pc' = "none" /\ tasks' = <<>> /\ calls' = <<>>

SetResume(d) ==
    /\ EditorEnabled
    /\ resume' = d
    /\ ForgetRun
    /\ UNCHANGED << service, earlier, uploadVars, draftVars, coverLetter, targetUrl, jobCount, resultVars, keyVars >>

SetCoverLetter(d) ==
    /\ EditorEnabled
    /\ coverLetter' = d
    /\ ForgetRun
    /\ UNCHANGED << service, earlier, uploadVars, draftVars, resume, targetUrl, jobCount, resultVars, keyVars >>

SetTargetUrl(u) ==
    /\ EditorEnabled
    /\ targetUrl' = u
    /\ ForgetRun
    /\ UNCHANGED << service, earlier, uploadVars, draftVars, resume, coverLetter, jobCount, resultVars, keyVars >>

\* the onChange of the job count field
ClampJobCount(val) ==
    IF val.nan THEN 1
    ELSE IF val.n > MaxJobCount THEN MaxJobCount
    ELSE IF val.n < 1 THEN 1
    ELSE val.n

SetJobCount(val) ==
    /\ EditorEnabled
    /\ jobCount' = ClampJobCount(val)
    /\ ForgetRun
    /\ UNCHANGED << service, earlier, uploadVars, draftVars, resume, coverLetter, targetUrl, resultVars, keyVars >>

\* ------------------------------------------------------------------------
\* API key prompt
\* ------------------------------------------------------------------------

\* the mount effect: checkApiKey resolves; hasKey = FALSE only when
\* window.aistudio exists and reports that no key is selected
CheckApiKey(hasKey) ==
    /\ ~apiKeyCheckDone
    /\ apiKeyCheckDone' = TRUE
    /\ isInitialApiKeyCheck' = IF hasKey THEN isInitialApiKeyCheck ELSE TRUE
    /\ showApiKeyModal' = IF hasKey THEN showApiKeyModal ELSE TRUE
    /\ UNCHANGED << service, earlier, uploadVars, draftVars, inputVars, resultVars, runVars >>

\* onClose of ApiKeyPromptModal
CloseApiKeyModal ==
    /\ apiKeyCheckDone /\ showApiKeyModal
    /\ showApiKeyModal' = FALSE
    /\ UNCHANGED << service, earlier, uploadVars, draftVars, inputVars, resultVars, apiKeyCheckDone, isInitialApiKeyCheck,
                    runVars >>

\* handleSelectKeyClick: handleOpenSelectKey, then onClose; outcome says how
\* window.aistudio.openSelectKey went
handleOpenSelectKey(outcome) ==
    /\ apiKeyCheckDone /\ showApiKeyModal
    /\ showApiKeyModal' = FALSE
    /\ error' = CASE outcome = "selected"    -> error
                  [] outcome = "failed"      ->
                       "Failed to open API key selection. Please try again or check your environment."
                  [] outcome = "unavailable" ->
                       "API key selection mechanism not available in this environment."
    /\ UNCHANGED << service, earlier, uploadVars, draftVars, inputVars, status, analysisResult, jobResults,
                    apiKeyCheckDone, isInitialApiKeyCheck, runVars >>

\* ------------------------------------------------------------------------
\* handleProcessAll
\* ------------------------------------------------------------------------

\* getClient's Error, in the revision that is built
MissingKeyError == IF service = 1 THEN KeyMissingMessage ELSE KeyMissingMessage2

\* the catch block of analyzeDocuments: the later revision rewraps Gemini errors
AnalysisErrorMessage(msg) ==
    IF service = 2 /\ checkForGeminiError(msg) THEN "API Error: " \o msg ELSE msg

\* findRelevantJobs of the revision that is built, for one task; hasKey says
\* whether getClient found process.env.API_KEY
SearchCall(hasKey, ext, task) ==
    IF ~hasKey THEN [ok |-> FALSE, message |-> MissingKeyError]
    ELSE IF service = 1 THEN findRelevantJobs(ext, task.url, task.limit)
    ELSE findRelevantJobs2(ext, task.url, task.limit)

\* a catch block that sets the message and leaves the status as it is
CatchWithoutStatus(msg, modal) ==
    /\ UNCHANGED status
    /\ IF Includes(msg, QuotaMarker)
       THEN /\ isInitialApiKeyCheck' = FALSE
            /\ showApiKeyModal' = TRUE
            /\ error' = "API Quota Exceeded. Please select a billing-enabled API key."
       ELSE /\ error' = IF msg # "" THEN msg
                        ELSE "An unexpected error occurred during processing."
            /\ showApiKeyModal' = modal
            /\ UNCHANGED isInitialApiKeyCheck

\* the catch block of handleProcessAll; modal is the value showApiKeyModal has
\* when the block runs
Catch(msg, modal) ==
    /\ status' = "error"
    /\ IF Includes(msg, QuotaMarker)
       THEN /\ isInitialApiKeyCheck' = FALSE
            /\ showApiKeyModal' = TRUE
            /\ error' = "API Quota Exceeded. Please select a billing-enabled API key."
       ELSE /\ error' = IF msg # "" THEN msg
                        ELSE "An unexpected error occurred during processing."
            /\ showApiKeyModal' = modal
            /\ UNCHANGED isInitialApiKeyCheck

\* setJobResults(combinedResult); setStatus(SUCCESS)
Publish(results, count) ==
    /\ jobResults' = [text |-> "Aggregated Search Results", links |-> FinalLinks(results, count)]
    /\ status' = "success"
    /\ UNCHANGED << error, showApiKeyModal, isInitialApiKeyCheck >>

\* the Analyze button, or the New Analysis button of the navbar
CanStartRun ==
    \/ /\ status # "success" /\ ~showApiKeyModal
       /\ status # "analyzing" /\ resume # "" /\ coverLetter # ""
    \/ status = "success" \/ showApiKeyModal

\* a click on either button while no run is awaited (a click while one is
\* awaited is HandleProcessAllOverlapping): the synchronous part of
\* handleProcessAll, up to the await of analyzeDocuments, whose getClient
\* throws when the key is unset
HandleProcessAll(hasKey) ==
    /\ CanStartRun
    /\ pc \in {"none", "returned"}
    /\ IF resume = "" \/ coverLetter = ""
       THEN /\ error' = "Please provide both Resume and Cover Letter content."
            /\ UNCHANGED << status, analysisResult, jobResults, keyVars, runVars >>
       ELSE /\ analysisResult' = NullObj
            /\ jobResults' = NullObj
            /\ tasks' = <<>>
            /\ calls' = <<>>
            /\ UNCHANGED apiKeyCheckDone
            /\ IF hasKey
               THEN /\ status' = "analyzing"
                    /\ error' = NULL
                    /\ showApiKeyModal' = FALSE
                    /\ pc' = "analysis"
                    /\ UNCHANGED isInitialApiKeyCheck
               ELSE /\ Catch(MissingKeyError, FALSE)
                    /\ pc' = "returned"
    /\ UNCHANGED << service, earlier, uploadVars, draftVars, inputVars >>

\* a map that starts the first search only and leaves the others unstarted
\* behind it
StartSearchesOneAtATime(plan, hasKey) ==
    Array([k \in 1..Len(plan) |->
              IF ~hasKey THEN TaskHandler(SearchCall(FALSE, Pending, plan[k]), plan[k])
              ELSE IF k = 1 THEN Pending
              ELSE [state |-> "unstarted"]])

\* tasks.map(task => findRelevantJobs(...).then(...).catch(...)): with the key
\* every call goes out and is pending; without it getClient throws in every
\* call before anything is sent, and each handler has run when the map returns
StartSearches(plan, hasKey) ==
    Array([k \in 1..Len(plan) |->
              IF hasKey THEN Pending
              ELSE TaskHandler(SearchCall(FALSE, Pending, plan[k]), plan[k])])

\* the rejection Promise.all rejects with: the first in task order among
\* promises that are already rejected
FirstRejection(cs) ==
    cs[CHOOSE k \in 1..Len(cs) :
          /\ cs[k].state = "rejected"
          /\ \A j \in 1..(k - 1) : cs[j].state # "rejected"]

\* a handler that plans and starts the searches whatever the analysis
\* settled with
AnalysisSettleSearchAnyway(ext, hasKey) ==
    /\ pc = "analysis"
    /\ \E plan \in {PlanTasks(targetUrl, jobCount)} :
       \E cs \in {StartSearches(plan, TRUE)} :
           /\ analysisResult' = IF ext.ok THEN [keywords |-> ext.keywords] ELSE analysisResult
           /\ tasks' = plan
           /\ calls' = cs
           /\ pc' = "search"
           /\ UNCHANGED << status, jobResults, error, showApiKeyModal, isInitialApiKeyCheck >>
    /\ UNCHANGED << service, earlier, uploadVars, draftVars, inputVars, apiKeyCheckDone >>

\* analyzeDocuments settles; on success the tasks are planned and every search
\* is started, each creating its client first
AnalysisSettle(ext, hasKey) ==
    /\ pc = "analysis"
    /\ IF ~ext.ok
       THEN /\ Catch(AnalysisErrorMessage(ext.message), showApiKeyModal)
            /\ pc' = "returned"
            /\ UNCHANGED << analysisResult, jobResults, tasks, calls >>
       ELSE \E plan \in {PlanTasks(targetUrl, jobCount)} :
            \E cs \in {StartSearches(plan, hasKey)} :
                /\ analysisResult' = [keywords |-> ext.keywords]
                /\ tasks' = plan
                /\ calls' = cs
                /\ IF hasKey
                   THEN /\ pc' = "search"
                        /\ UNCHANGED << status, jobResults, error, showApiKeyModal,
                                        isInitialApiKeyCheck >>
                   ELSE /\ pc' = "returned"
                        /\ IF \E k \in 1..Len(cs) : cs[k].state = "rejected"
                           THEN /\ Catch(FirstRejection(cs).message, showApiKeyModal)
                                /\ UNCHANGED jobResults
                           ELSE Publish(cs, jobCount)
    /\ UNCHANGED << service, earlier, uploadVars, draftVars, inputVars, apiKeyCheckDone >>

\* the external call of task i is in flight, and its promise may settle: each
\* promise of the map has its own then and catch, and none refers to another
CanSettle(i) ==
    /\ pc \in {"search", "returned"}
    /\ i \in 1..Len(calls)
    /\ calls[i] = Pending

\* the settle step of an orchestrator that awaits every task before it looks
\* at any rejection, and publishes what the fulfilled tasks found
TaskSettleAwaitAll(i, ext) ==
    /\ pc = "search"
    /\ i \in 1..Len(calls)
    /\ calls[i] = Pending
    /\ \E cs \in {[calls EXCEPT ![i] = TaskHandler(SearchCall(TRUE, ext, tasks[i]), tasks[i])]} :
           /\ calls' = cs
           /\ IF \A k \in 1..Len(cs) : cs[k] # Pending
              THEN /\ Publish(SelectSeq(cs, LAMBDA c : c.state = "fulfilled"), jobCount)
                   /\ pc' = "returned"
              ELSE UNCHANGED << status, jobResults, error, showApiKeyModal,
                                isInitialApiKeyCheck, pc >>
    /\ UNCHANGED << service, earlier, uploadVars, draftVars, inputVars, analysisResult, tasks, apiKeyCheckDone >>

\* the settle step of an orchestrator that publishes as soon as the tasks
\* that have settled fill the quota, without waiting for the others
TaskSettleEarlyPublish(i, ext) ==
    /\ CanSettle(i)
    /\ \E cs \in {[calls EXCEPT ![i] = TaskHandler(SearchCall(TRUE, ext, tasks[i]), tasks[i])]} :
       \E done \in {SelectSeq(cs, LAMBDA c : c.state = "fulfilled")} :
           /\ calls' = cs
           /\ IF pc = "returned"
              THEN UNCHANGED << status, jobResults, error, showApiKeyModal,
                                isInitialApiKeyCheck, pc >>
              ELSE IF cs[i].state = "rejected"
              THEN /\ Catch(cs[i].message, showApiKeyModal)
                   /\ pc' = "returned"
                   /\ UNCHANGED jobResults
              ELSE IF \/ Len(done) = Len(cs)
                      \/ Len(FinalLinks(done, jobCount)) >= jobCount
              THEN /\ Publish(done, jobCount)
                   /\ pc' = "returned"
              ELSE UNCHANGED << status, jobResults, error, showApiKeyModal,
                                isInitialApiKeyCheck, pc >>
    /\ UNCHANGED << service, earlier, uploadVars, draftVars, inputVars, analysisResult, tasks, apiKeyCheckDone >>

\* the external call of task i settles; the task's handler runs, and
\* Promise.all either rejects with it, resolves with it, or keeps waiting.
\* Once handleProcessAll has returned, a straggler's result goes nowhere.
TaskSettle(i, ext) ==
    /\ CanSettle(i)
    /\ \E cs \in {[calls EXCEPT ![i] = TaskHandler(SearchCall(TRUE, ext, tasks[i]), tasks[i])]} :
           /\ calls' = cs
           /\ IF pc = "returned"
              THEN UNCHANGED << status, jobResults, error, showApiKeyModal,
                                isInitialApiKeyCheck, pc >>
              ELSE IF cs[i].state = "rejected"
              THEN /\ Catch(cs[i].message, showApiKeyModal)
                   /\ pc' = "returned"
                   /\ UNCHANGED jobResults
              ELSE IF \A k \in 1..Len(cs) : cs[k].state = "fulfilled"
              THEN /\ Publish(cs, jobCount)
                   /\ pc' = "returned"
              ELSE UNCHANGED << status, jobResults, error, showApiKeyModal,
                                isInitialApiKeyCheck, pc >>
    /\ UNCHANGED << service, earlier, uploadVars, draftVars, inputVars, analysisResult, tasks, apiKeyCheckDone >>

\* a reset that clears the documents as well
HandleEditClearsInputs ==
    /\ status = "success" /\ analysisResult # NullObj
    /\ analysisResult' = NullObj
    /\ jobResults' = NullObj
    /\ status' = "idle"
    /\ error' = NULL
    /\ showApiKeyModal' = FALSE
    /\ resume' = "" /\ coverLetter' = ""
    /\ ForgetRun
    /\ UNCHANGED << service, earlier, uploadVars, draftVars, targetUrl, jobCount, apiKeyCheckDone, isInitialApiKeyCheck >>

\* onBack of AnalysisDisplay
HandleEdit ==
    /\ status = "success" /\ analysisResult # NullObj
    /\ analysisResult' = NullObj
    /\ jobResults' = NullObj
    /\ status' = "idle"
    /\ error' = NULL
    /\ showApiKeyModal' = FALSE
    /\ ForgetRun
    /\ UNCHANGED << service, earlier, uploadVars, draftVars, inputVars, apiKeyCheckDone, isInitialApiKeyCheck >>

\* ------------------------------------------------------------------------
\* handleProcessAll while an earlier run is still awaited: every run is a
\* closure of its own over handleProcessAll's body, and all of them write the
\* same component state
\* ------------------------------------------------------------------------

\* the most runs followed behind the current one
MaxEarlier == 1

\* the current run as a later click leaves it behind: where it is, its
\* promises, and the inputs its closure holds
CurrentRun ==
    [pc |-> pc, tasks |-> tasks, calls |-> calls, targetUrl |-> targetUrl, jobCount |-> jobCount]

\* the sequence without its k-th element
Remove(s, k) == SubSeq(s, 1, k - 1) \o SubSeq(s, k + 1, Len(s))

\* a click on either button while a run is awaited: the same synchronous part
\* of handleProcessAll; the run that was current goes on behind the new one
HandleProcessAllOverlapping(hasKey) ==
    /\ CanStartRun
    /\ pc \in {"analysis", "search"}
    /\ Len(earlier) < MaxEarlier
    /\ IF resume = "" \/ coverLetter = ""
       THEN /\ error' = "Please provide both Resume and Cover Letter content."
            /\ UNCHANGED << status, analysisResult, jobResults, keyVars, runVars, earlier >>
       ELSE /\ earlier' = Append(earlier, CurrentRun)
            /\ analysisResult' = NullObj
            /\ jobResults' = NullObj
            /\ tasks' = <<>>
            /\ calls' = <<>>
            /\ UNCHANGED apiKeyCheckDone
            /\ IF hasKey
               THEN /\ status' = "analyzing"
                    /\ error' = NULL
                    /\ showApiKeyModal' = FALSE
                    /\ pc' = "analysis"
                    /\ UNCHANGED isInitialApiKeyCheck
               ELSE /\ Catch(MissingKeyError, FALSE)
                    /\ pc' = "returned"
    /\ UNCHANGED << service, uploadVars, draftVars, inputVars >>

\* analyzeDocuments of the k-th earlier run settles: AnalysisSettle on the
\* values of that run's closure
EarlierAnalysisSettle(k, ext, hasKey) ==
    /\ k \in 1..Len(earlier)
    /\ earlier[k].pc = "analysis"
    /\ IF ~ext.ok
       THEN /\ Catch(AnalysisErrorMessage(ext.message), showApiKeyModal)
            /\ earlier' = Remove(earlier, k)
            /\ UNCHANGED << analysisResult, jobResults >>
       ELSE \E plan \in {PlanTasks(earlier[k].targetUrl, earlier[k].jobCount)} :
            \E cs \in {StartSearches(plan, hasKey)} :
                /\ analysisResult' = [keywords |-> ext.keywords]
                /\ IF hasKey
                   THEN /\ earlier' = [earlier EXCEPT ![k] =
                                          [@ EXCEPT !.pc = "search", !.tasks = plan, !.calls = cs]]
                        /\ UNCHANGED << status, jobResults, error, showApiKeyModal,
                                        isInitialApiKeyCheck >>
                   ELSE /\ earlier' = Remove(earlier, k)
                        /\ IF \E n \in 1..Len(cs) : cs[n].state = "rejected"
                           THEN /\ Catch(FirstRejection(cs).message, showApiKeyModal)
                                /\ UNCHANGED jobResults
                           ELSE Publish(cs, earlier[k].jobCount)
    /\ UNCHANGED << service, uploadVars, draftVars, inputVars, apiKeyCheckDone, runVars >>

\* the external call of task i of the k-th earlier run settles: TaskSettle on
\* that run's promises
EarlierTaskSettle(k, i, ext) ==
    /\ k \in 1..Len(earlier)
    /\ earlier[k].pc = "search"
    /\ i \in 1..Len(earlier[k].calls)
    /\ earlier[k].calls[i] = Pending
    /\ \E cs \in {[earlier[k].calls EXCEPT ![i] =
                      TaskHandler(SearchCall(TRUE, ext, earlier[k].tasks[i]),
                                  earlier[k].tasks[i])]} :
           IF cs[i].state = "rejected"
           THEN /\ Catch(cs[i].message, showApiKeyModal)
                /\ earlier' = Remove(earlier, k)
                /\ UNCHANGED jobResults
           ELSE IF \A n \in 1..Len(cs) : cs[n].state = "fulfilled"
           THEN /\ Publish(cs, earlier[k].jobCount)
                /\ earlier' = Remove(earlier, k)
           ELSE /\ earlier' = [earlier EXCEPT ![k].calls = cs]
                /\ UNCHANGED << status, jobResults, error, showApiKeyModal,
                                isInitialApiKeyCheck >>
    /\ UNCHANGED << service, uploadVars, draftVars, inputVars, analysisResult, apiKeyCheckDone,
                    runVars >>

\* ------------------------------------------------------------------------
\* The Application Drafter: generateApplicationData and handleAutoFill
\* ------------------------------------------------------------------------

\* response.text of the drafting call: empty, cut short, or the JSON asked for
ValidDraftText == "{\"personalInfo\":{},\"responses\":{}}"

DraftTexts == {"", "{", ValidDraftText}

\* JSON.parse on the texts of the model: the value, or the SyntaxError
JsonParse(text) ==
    IF text = ValidDraftText
    THEN [ok |-> TRUE, value |-> [personalInfo |-> <<>>, responses |-> <<>>]]
    ELSE [ok |-> FALSE, message |-> "Unexpected end of JSON input"]

\* the message of the error a call with a rejected key fails with
InvalidKeyMessage == "API key not valid. Please pass a valid API key. API_KEY_INVALID"

\* what ai.models.generateContent settles with, for a drafting call
DraftOutcomes ==
    {[ok |-> TRUE, text |-> t] : t \in DraftTexts}
        \cup {[ok |-> FALSE, message |-> m] : m \in ErrorMessages \cup {InvalidKeyMessage}}

\* the try block of generateApplicationData: the awaited call, the empty-text
\* check and JSON.parse; parsed is what JSON.parse makes of the text
DraftTry(ext, parsed) ==
    IF ~ext.ok THEN [ok |-> FALSE, message |-> ext.message]
    ELSE IF ext.text = "" THEN [ok |-> FALSE, message |-> "No response from Gemini"]
    ELSE IF ~parsed.ok THEN [ok |-> FALSE, message |-> parsed.message]
    ELSE [ok |-> TRUE, data |-> parsed.value]

\* services/geminiService.ts: the catch block logs and rethrows
generateApplicationData(ext) ==
    DraftTry(ext, IF ext.ok THEN JsonParse(ext.text) ELSE NullObj)

\* the catch block of the later revision: a Gemini error is rewrapped
DraftingErrorMessage(r) ==
    IF r.ok THEN r
    ELSE [ok |-> FALSE,
          message |-> IF checkForGeminiError(r.message)
                      THEN "Drafting Error: " \o r.message ELSE r.message]

\* the later revision of generateApplicationData
generateApplicationData2(ext) ==
    DraftingErrorMessage(DraftTry(ext, IF ext.ok THEN JsonParse(ext.text) ELSE NullObj))

\* generateApplicationData of the revision that is built
DraftCall(ext) ==
    IF service = 1 THEN generateApplicationData(ext) ELSE generateApplicationData2(ext)

\* the most drafting calls followed in flight at once
MaxDrafts == 2

DraftFailedText == "Failed to generate application content. Please try again."

appVars == << service, inputVars, resultVars, keyVars, runVars, earlier, uploadVars >>

\* a click on the Auto-Fill button of a link: handleAutoFill up to its await;
\* without the key getClient throws before any call is made, and the catch
\* and finally blocks have run when the click is done
HandleAutoFill(link, hasKey) ==
    /\ jobResults # NullObj /\ applicationData = NullObj
    /\ \E n \in 1..Len(jobResults.links) : jobResults.links[n] = link
    /\ generatingForUri # link.uri
    /\ Len(drafts) < MaxDrafts
    /\ IF resume = ""
       THEN /\ modalError' = "Resume data is missing. Please upload a resume first."
            /\ UNCHANGED << generatingForUri, selectedJobTitle, drafts, consoleError >>
       ELSE /\ selectedJobTitle' = link.title
            /\ IF hasKey
               THEN /\ generatingForUri' = link.uri
                    /\ modalError' = NULL
                    /\ drafts' = Append(drafts, link)
                    /\ UNCHANGED consoleError
               ELSE /\ generatingForUri' = NULL
                    /\ modalError' = DraftFailedText
                    /\ consoleError' = MissingKeyError
                    /\ UNCHANGED drafts
    /\ UNCHANGED << appVars, applicationData, draftedFor >>

\* the call of the k-th draft in flight settles: the rest of
\* generateApplicationData, then the rest of handleAutoFill
DraftSettle(k, ext) ==
    /\ k \in 1..Len(drafts)
    /\ drafts' = SubSeq(drafts, 1, k - 1) \o SubSeq(drafts, k + 1, Len(drafts))
    /\ generatingForUri' = NULL
    /\ \E r \in {DraftCall(ext)} :
           IF r.ok
           THEN /\ applicationData' = r.data
                /\ draftedFor' = drafts[k]
                /\ UNCHANGED << modalError, consoleError >>
           ELSE /\ modalError' = DraftFailedText
                /\ consoleError' = r.message
                /\ UNCHANGED << applicationData, draftedFor >>
    /\ UNCHANGED << appVars, selectedJobTitle >>

\* onClose of ApplicationModal
CloseApplicationModal ==
    /\ applicationData # NullObj
    /\ applicationData' = NullObj
    /\ UNCHANGED << appVars, generatingForUri, selectedJobTitle, modalError, drafts,
                    consoleError, draftedFor >>

Next ==
    \/ \E d \in DocInputs : SetResume(d)
    \/ \E d \in DocInputs : SetCoverLetter(d)
    \/ \E u \in UrlInputs : SetTargetUrl(u)
    \/ \E v \in JobCountInputs : SetJobCount(v)
    \/ \E k \in BOOLEAN : CheckApiKey(k)
    \/ CloseApiKeyModal
    \/ \E o \in {"selected", "failed", "unavailable"} : handleOpenSelectKey(o)
    \/ \E k \in BOOLEAN : HandleProcessAll(k)
    \/ \E ext \in AnalysisOutcomes, k \in BOOLEAN : AnalysisSettle(ext, k)
    \/ \E i \in 1..(Len(PRESET_JOB_BOARDS) + 2), ext \in SearchOutcomes : TaskSettle(i, ext)
    \/ HandleEdit

Spec == Init /\ [][Next]_vars

\* ------------------------------------------------------------------------
\* The planner on its own: a run that awaits analyzeDocuments, for every
\* target URL and every job count the field can hold
\* ------------------------------------------------------------------------

InitPlan ==
    /\ service \in {1, 2}
    /\ resume = "text" /\ coverLetter = "text"
    /\ targetUrl \in PlannerUrlInputs /\ jobCount \in JobCounts
    /\ status = "analyzing" /\ analysisResult = NullObj /\ jobResults = NullObj /\ error = NULL
    /\ showApiKeyModal = FALSE /\ apiKeyCheckDone = TRUE /\ isInitialApiKeyCheck = FALSE
    /\ pc = "analysis" /\ tasks = <<>> /\ calls = <<>>
    /\ DraftIdle /\ UploadIdle /\ earlier = <<>>

NextPlan == \E ext \in AnalysisOutcomes, k \in BOOLEAN : AnalysisSettle(ext, k)

SpecPlan == InitPlan /\ [][NextPlan]_vars

\* ------------------------------------------------------------------------
\* The searches on their own: a run whose analysis has succeeded and whose
\* tasks are in flight, each answered with a classifier answer
\* ------------------------------------------------------------------------

\* the target URLs and the job count of the runs that are followed
SearchUrlInputs == {"", "jobs.acme.com "}

SearchJobCounts == {2}

InitSearch ==
    /\ service \in {1, 2}
    /\ resume = "text" /\ coverLetter = "text"
    /\ targetUrl \in SearchUrlInputs /\ jobCount \in SearchJobCounts
    /\ status = "analyzing" /\ jobResults = NullObj /\ error = NULL
    /\ analysisResult = [keywords |-> <<"Python", "Kubernetes", "gRPC">>]
    /\ showApiKeyModal = FALSE /\ apiKeyCheckDone = TRUE /\ isInitialApiKeyCheck = FALSE
    /\ pc = "search"
    /\ tasks = PlanTasks(targetUrl, jobCount)
    /\ calls = StartSearches(tasks, TRUE)
    /\ DraftIdle /\ UploadIdle /\ earlier = <<>>

NextSearch ==
    \E i \in 1..(Len(PRESET_JOB_BOARDS) + 2), ext \in ClassifierOutcomes : TaskSettle(i, ext)

SpecSearch == InitSearch /\ [][NextSearch]_vars

\* ------------------------------------------------------------------------
\* The drafter on its own: a response is on display and the user asks for
\* drafts of its links
\* ------------------------------------------------------------------------

\* what the USER task of the displayed run returned
DraftLinkLists == { <<A1>>, <<A1, G1>> }

InitDraft ==
    /\ service \in {1, 2}
    /\ resume = "text" /\ coverLetter = "text"
    /\ targetUrl = "jobs.acme.com " /\ jobCount \in SearchJobCounts
    /\ status = "success" /\ error = NULL
    /\ analysisResult = [keywords |-> <<"Python", "Kubernetes", "gRPC">>]
    /\ showApiKeyModal = FALSE /\ apiKeyCheckDone = TRUE /\ isInitialApiKeyCheck = FALSE
    /\ pc = "returned"
    /\ tasks = PlanTasks(targetUrl, jobCount)
    /\ \E found \in DraftLinkLists :
           calls = Array([k \in 1..Len(tasks) |->
                       TaskHandler([ok |-> TRUE, links |-> IF k = 1 THEN found ELSE <<>>],
                                   tasks[k])])
    /\ jobResults = [text |-> "Aggregated Search Results", links |-> FinalLinks(calls, jobCount)]
    /\ DraftIdle /\ UploadIdle /\ earlier = <<>>

NextDraft ==
    \/ \E link \in {A1, G1}, k \in BOOLEAN : HandleAutoFill(link, k)
    \/ \E k \in 1..MaxDrafts, ext \in DraftOutcomes : DraftSettle(k, ext)
    \/ CloseApplicationModal

SpecDraft == InitDraft /\ [][NextDraft]_vars

\* ------------------------------------------------------------------------
\* Runs that overlap: the page as it mounts with both documents in place,
\* the key check still out, and every external call settling in the end
\* ------------------------------------------------------------------------

\* the job count of the runs that are followed
OverlapJobCounts == {1}

\* what a search call of these runs settles with
OverlapOutcomes ==
    {[ok |-> TRUE, chunks |-> c] : c \in {<<>>, <<X1, A1, G1>>}}
        \cup {[ok |-> FALSE, message |-> m] : m \in {SoftMessage, QuotaMessage}}

InitOverlap ==
    /\ service \in {1, 2}
    /\ resume = "text" /\ coverLetter = "text"
    /\ targetUrl = "" /\ jobCount \in OverlapJobCounts
    /\ status = "idle" /\ analysisResult = NullObj /\ jobResults = NullObj /\ error = NULL
    /\ showApiKeyModal = FALSE /\ apiKeyCheckDone = FALSE /\ isInitialApiKeyCheck = FALSE
    /\ pc = "none" /\ tasks = <<>> /\ calls = <<>>
    /\ DraftIdle /\ UploadIdle /\ earlier = <<>>

NextOverlap ==
    \/ \E k \in BOOLEAN : CheckApiKey(k)
    \/ CloseApiKeyModal
    \/ \E k \in BOOLEAN : HandleProcessAll(k)
    \/ \E k \in BOOLEAN : HandleProcessAllOverlapping(k)
    \/ \E ext \in AnalysisOutcomes, k \in BOOLEAN : AnalysisSettle(ext, k)
    \/ \E i \in 1..(Len(PRESET_JOB_BOARDS) + 2), ext \in OverlapOutcomes : TaskSettle(i, ext)
    \/ \E n \in 1..MaxEarlier, ext \in AnalysisOutcomes, k \in BOOLEAN :
           EarlierAnalysisSettle(n, ext, k)
    \/ \E n \in 1..MaxEarlier, i \in 1..(Len(PRESET_JOB_BOARDS) + 2), ext \in OverlapOutcomes :
           EarlierTaskSettle(n, i, ext)
    \/ HandleEdit

\* every external call settles in the end
CallsSettle ==
    /\ WF_vars(\E ext \in AnalysisOutcomes, k \in BOOLEAN : AnalysisSettle(ext, k))
    /\ WF_vars(\E i \in 1..(Len(PRESET_JOB_BOARDS) + 2), ext \in OverlapOutcomes :
                  TaskSettle(i, ext))
    /\ WF_vars(\E n \in 1..MaxEarlier, ext \in AnalysisOutcomes, k \in BOOLEAN :
                  EarlierAnalysisSettle(n, ext, k))
    /\ WF_vars(\E n \in 1..MaxEarlier, i \in 1..(Len(PRESET_JOB_BOARDS) + 2),
                   ext \in OverlapOutcomes : EarlierTaskSettle(n, i, ext))

SpecOverlap == InitOverlap /\ [][NextOverlap]_vars /\ CallsSettle

\* ------------------------------------------------------------------------
\* Properties of the discovery response (Spec)
\* ------------------------------------------------------------------------

\* a discovery response is on display
Published == jobResults # NullObj

\* every task of the run has settled without a rejection
AllFulfilled == calls # <<>> /\ \A k \in 1..Len(calls) : calls[k].state = "fulfilled"

\* the uris task k handed to the aggregator
TaskUris(k) ==
    IF calls[k].state = "fulfilled"
    THEN {calls[k].links[n].uri : n \in 1..Len(calls[k].links)}
    ELSE {}

\* the uris of the response
ResultUris == {jobResults.links[n].uri : n \in 1..Len(jobResults.links)}

\* C1: a discovery request that succeeds returns at most totalQuota (jobCount)
\* links, whatever the tasks returned.
C1_QuotaBound == Published => Len(jobResults.links) <= jobCount

\* the tasks pooled more distinct uris than the quota, and the response holds
\* exactly the quota
C1_Witness ==
    /\ Published /\ AllFulfilled
    /\ Cardinality(UNION {TaskUris(k) : k \in 1..Len(calls)}) > jobCount
    /\ Len(jobResults.links) = jobCount

Candidates == UNION {{c[n] : n \in 1..Len(c)} : c \in Responses}

\* the scores both classifiers give each link against each target, evaluated once
ScoreMemo ==
    {<<l, u, ScoreLink(l, u).score, ScoreLink2(l, u).score>> :
        l \in Candidates, u \in TargetUrls \cup {NULL}}

\* the score the classifier of the built revision gives a link of a task
ScoreOf(link, target) ==
    LET m == CHOOSE x \in ScoreMemo : x[1] = link /\ x[2] = target
    IN  IF service = 1 THEN m[3] ELSE m[4]

\* the links the tasks handed over, in the order the aggregator sorts them
\* into, each with the task it came from and the score that task gave it
SortedPool ==
    SortByPriority(
        Flatten(Array([k \in 1..Len(calls) |->
            Array([n \in 1..Len(calls[k].links) |->
                [uri      |-> calls[k].links[n].uri,
                 priority |-> calls[k].priority,
                 task     |-> k,
                 score    |-> ScoreOf(calls[k].links[n], tasks[k].url)]])])))

\* the pooled entry the link at position i of the response was kept from: the
\* first one with its uri
Origin(pool, i) ==
    pool[CHOOSE n \in 1..Len(pool) :
            /\ pool[n].uri = jobResults.links[i].uri
            /\ \A m \in 1..(n - 1) : pool[m].uri # jobResults.links[i].uri]

QuotaOutcomes == {o \in SearchOutcomes : ~o.ok /\ Includes(o.message, QuotaMarker)}

\* the search outcomes that fail without it
SoftOutcomes == {o \in SearchOutcomes : ~o.ok /\ ~Includes(o.message, QuotaMarker)}

QuotaErrorText == "API Quota Exceeded. Please select a billing-enabled API key."

\* some task of the run was rejected
SomeRejected == \E k \in 1..Len(calls) : calls[k].state = "rejected"

C5_SoftFailureIsEmptyList ==
    [][\A i \in 1..Len(calls), ext \in SoftOutcomes :
          TaskSettle(i, ext) => TaskSettle(i, [ok |-> TRUE, chunks |-> <<>>])]_vars

\* the first revision's OPEN task always fails (its null target throws), and
\* the response carries the links of its siblings
C5_Witness ==
    /\ service = 1 /\ status = "success" /\ Published /\ AllFulfilled
    /\ tasks[Len(tasks)].type = "OPEN" /\ calls[Len(calls)].links = <<>>
    /\ jobResults.links # <<>>

\* C6 as stated: when the credential is missing as the search tasks create
\* their clients, the request ends in an error.
C6_ConfigErrorFailsRequest ==
    [][\A ext \in {o \in AnalysisOutcomes : o.ok} :
          AnalysisSettle(ext, FALSE) => status' = "error"]_vars

\* C7: once a task is rejected with a quota signal the request has returned
\* with the error, siblings in flight or not, and no response is published
\* for it, also after the remaining tasks settle.
C7_NoPartialResult ==
    SomeRejected => (pc = "returned" /\ status = "error" /\ jobResults = NullObj)

\* a task was rejected, a sibling has settled with links and another is still
\* in flight, and nothing is published
C7_Witness ==
    /\ SomeRejected /\ pc = "returned" /\ jobResults = NullObj
    /\ \E k \in 1..Len(calls) : calls[k] = Pending
    /\ \E k \in 1..Len(calls) : calls[k].state = "fulfilled" /\ calls[k].links # <<>>

\* ------------------------------------------------------------------------
\* Properties of the planner (SpecPlan)
\* ------------------------------------------------------------------------

\* the task list has been built
Planned == tasks # <<>>

PresetTasks == {i \in 1..Len(tasks) : tasks[i].type = "PRESET"}

\* the tasks of preset k, counted from 0
PresetTasksOf(k) == {i \in PresetTasks : tasks[i].url = PRESET_JOB_BOARDS[k + 1]}

UserTaskIndexes == {i \in 1..Len(tasks) : tasks[i].type = "USER"}

\* the USER task has the url of a preset
UserClaimsPreset ==
    \E i \in UserTaskIndexes, k \in 1..Len(PRESET_JOB_BOARDS) :
        tasks[i].url = PRESET_JOB_BOARDS[k]

\* the number of j in 0..Q-1 with j mod P = k
RoundRobinShare(k, Q) ==
    Cardinality({j \in 0..(Q - 1) : j % Len(PRESET_JOB_BOARDS) = k})

RECURSIVE SumLimits(_)
SumLimits(S) ==
    IF S = {} THEN 0
    ELSE LET i == CHOOSE x \in S : TRUE IN tasks[i].limit + SumLimits(S \ {i})

\* C8: when the user target claims no preset, preset k has one task with
\* quota |{j in 0..Q-1 : j mod P = k}|, or no task when that number is 0; the
\* preset quotas sum to Q, each is at least 1, and any two differ by at most 1.
C8_RoundRobinQuotas ==
    (Planned /\ ~UserClaimsPreset) =>
        /\ \A k \in 0..(Len(PRESET_JOB_BOARDS) - 1) :
               IF RoundRobinShare(k, jobCount) = 0
               THEN PresetTasksOf(k) = {}
               ELSE /\ Cardinality(PresetTasksOf(k)) = 1
                    /\ \A i \in PresetTasksOf(k) :
                           tasks[i].limit = RoundRobinShare(k, jobCount)
        /\ PresetTasks = UNION {PresetTasksOf(k) : k \in 0..(Len(PRESET_JOB_BOARDS) - 1)}
        /\ SumLimits(PresetTasks) = jobCount
        /\ \A i \in PresetTasks : tasks[i].limit >= 1
        /\ \A i, j \in PresetTasks : tasks[i].limit - tasks[j].limit <= 1

\* a plan for a user target that is no preset, with unequal preset quotas
C8_Witness ==
    /\ Planned /\ ~UserClaimsPreset /\ UserTaskIndexes # {}
    /\ Cardinality(PresetTasks) = Len(PRESET_JOB_BOARDS)
    /\ \E i, j \in PresetTasks : tasks[i].limit > tasks[j].limit

\* every character of s is a space
Blank(s) == \A i \in 1..Len(s) : SubSeq(s, i, i) = " "

\* C9: the plan has exactly one USER task, first, of tier 1 and with quota
\* totalQuota, when the target URL is not blank, and none when it is empty or
\* whitespace only.
C9_OneUserTask ==
    Planned =>
        IF Blank(targetUrl)
        THEN UserTaskIndexes = {}
        ELSE /\ UserTaskIndexes = {1}
             /\ tasks[1].priority = 1
             /\ tasks[1].limit = jobCount
             /\ \A i \in 2..Len(tasks) : tasks[i].priority > 1

\* a plan for a target typed with a trailing space
C9_Witness ==
    /\ Planned /\ targetUrl = "jobs.acme.com "
    /\ tasks[1] = [type |-> "USER", url |-> "https://jobs.acme.com", priority |-> 1,
                   limit |-> jobCount]

\* C10 as stated: the USER task's target begins with http:// or https://.
C10_UserTargetHasScheme ==
    \A i \in UserTaskIndexes :
        StartsWith(tasks[i].url, "http://") \/ StartsWith(tasks[i].url, "https://")

OpenTaskIndexes == {i \in 1..Len(tasks) : tasks[i].type = "OPEN"}

\* C11: every plan, with or without a user target and for every job count of
\* 1..20, has exactly one OPEN task, and that task has no target site,
\* priority 3 and the whole job count as its quota.
C11_OneOpenTask ==
    Planned =>
        /\ Cardinality(OpenTaskIndexes) = 1
        /\ \A i \in OpenTaskIndexes :
               tasks[i].url = NULL /\ tasks[i].priority = 3 /\ tasks[i].limit = jobCount

\* a plan with a USER task, presets and the OPEN task last, for the largest
\* job count
C11_Witness ==
    /\ Planned /\ UserTaskIndexes # {} /\ PresetTasks # {} /\ jobCount = MaxJobCount
    /\ tasks[Len(tasks)] = [type |-> "OPEN", url |-> NULL, priority |-> 3, limit |-> MaxJobCount]

\* the tasks that name a target site
SiteTasks == {i \in 1..Len(tasks) : tasks[i].url # NULL}

\* C12 as stated: no two tasks of a plan target the same site, sites compared
\* in normalized form (lower case, no scheme, no www., no trailing slash).
C12_NoSiteTwice ==
    \A i, j \in SiteTasks : i # j => normalize(tasks[i].url) # normalize(tasks[j].url)

\* ------------------------------------------------------------------------
\* Properties of the concurrent searches (Spec)
\* ------------------------------------------------------------------------

\* C13: once a request has planned its tasks every one of them has been
\* started, before any result is consumed; and a call that is in flight can
\* settle whatever the other calls have done so far.
C13_AllStartedTogether ==
    Planned =>
        /\ Len(calls) = Len(tasks)
        /\ \A i \in 1..Len(calls) : calls[i].state \in {"pending", "fulfilled", "rejected"}
        /\ \A i \in 1..Len(calls) : calls[i] = Pending => CanSettle(i)

\* a later task has settled with links while an earlier one is still in
\* flight and the request is still awaited
C13_Witness ==
    /\ pc = "search"
    /\ \E i, j \in 1..Len(calls) :
           i < j /\ calls[i] = Pending /\ calls[j].state = "fulfilled" /\ calls[j].links # <<>>

\* the links of the tasks from position k on, in plan order, that are kept
\* after out: the first link of each uri, until count links are kept
RECURSIVE WaterfallFill(_, _, _, _)
WaterfallFill(k, n, out, count) ==
    IF k > Len(calls) \/ Len(out) >= count THEN out
    ELSE IF n > Len(calls[k].links) THEN WaterfallFill(k + 1, 1, out, count)
    ELSE IF \E m \in 1..Len(out) : out[m].uri = calls[k].links[n].uri
         THEN WaterfallFill(k, n + 1, out, count)
         ELSE WaterfallFill(k, n + 1, Append(out, calls[k].links[n]), count)

\* C14: the response is a function of the plan, of what each task returned
\* and of the quota alone (the links in plan order, first occurrence of each
\* uri, cut at the quota), in whatever order the tasks completed.
C14_ResponseIndependentOfOrder ==
    (Published /\ AllFulfilled) => jobResults.links = WaterfallFill(1, 1, <<>>, jobCount)

\* a response that holds links of two tasks and leaves out a link some task
\* returned
C14_Witness ==
    /\ Published /\ AllFulfilled
    /\ \E k, m \in 1..Len(calls) :
           /\ k < m
           /\ (TaskUris(k) \cap ResultUris) # {}
           /\ (TaskUris(m) \cap ResultUris) \ TaskUris(k) # {}
    /\ \E k \in 1..Len(calls) : TaskUris(k) \ ResultUris # {}

\* ------------------------------------------------------------------------
\* Properties of the Link Classifier (SpecSearch)
\* ------------------------------------------------------------------------

\* every candidate a classifier answer holds
ClassifierCandidates == UNION {{c[n] : n \in 1..Len(c)} : c \in ClassifierResponses}

\* what both revisions make of each candidate against each target, evaluated
\* once
ClassMemo ==
    {<<l, u, ScoreLink(l, u), ScoreLink2(l, u)>> :
        l \in ClassifierCandidates, u \in TargetUrls \cup {NULL}}

\* the classification of the built revision
ClassOf(link, target) ==
    LET m == CHOOSE x \in ClassMemo : x[1] = link /\ x[2] = target
    IN  IF service = 1 THEN m[3] ELSE m[4]

\* task k has returned its links
Returned(k) == calls[k].state = "fulfilled"

\* the denylist of listing and error signatures
Denylist ==
    {"not found", "error", "404", "job closed", "closed job",
     "no longer available", "login", "sign in", "search results"}

\* the candidates whose title matches the denylist, in any letter case
Denylisted ==
    {l \in ClassifierCandidates : \E p \in Denylist : Includes(ToLowerCase(l.title), p)}

\* C15 as stated: no link a task returns has a title that matches an entry
\* of the denylist.
C15_DenylistRejects ==
    \A k \in 1..Len(calls) :
        Returned(k) => \A n \in 1..Len(calls[k].links) : calls[k].links[n] \notin Denylisted

\* the candidate is the target itself, or the target with at most 4 more
\* characters, both in normalized form
NearTarget ==
    {<<l, u>> \in ClassifierCandidates \X TargetUrls :
        /\ StartsWith(normalize(l.uri), normalize(u))
        /\ Len(normalize(l.uri)) <= Len(normalize(u)) + 4}

\* C16 as stated: no link returned by a task with a target site is that
\* target or a near copy of it.
C16_SelfReferenceExcluded ==
    \A k \in 1..Len(calls) :
        (Returned(k) /\ tasks[k].url # NULL) =>
            \A n \in 1..Len(calls[k].links) :
                <<calls[k].links[n], tasks[k].url>> \notin NearTarget

\* the names of the applicant tracking systems
AtsNames ==
    {"greenhouse", "lever", "workday", "ashby", "smartrecruiters", "icims",
     "jobvite", "taleo", "bamboohr", "recruitee", "workable"}

\* the reference cascade on host, root domain and lower-cased trimmed title
Cascade(host, root, title) ==
    (IF Includes(host, root) \/ Includes(root, host) THEN 100
     ELSE IF \E a \in AtsNames : Includes(host, a) THEN 80
     ELSE IF Includes(title, FirstLabel(root)) THEN 50
     ELSE 10)
    - (IF StartsWith(title, "jobs at ") /\ ~(Includes(host, root) \/ Includes(root, host))
       THEN 20 ELSE 0)

\* the reference score of every candidate with a well-formed uri against
\* every target, evaluated once
CascadeMemo ==
    {<<l, u, Cascade(ParseUrl(l.uri).hostname, getRootDomain(u), ToLowerCase(Trim(l.title)))>> :
        l \in {c \in ClassifierCandidates : ParseUrl(c.uri).ok}, u \in TargetUrls}

CascadeOf(link, target) ==
    (CHOOSE x \in CascadeMemo : x[1] = link /\ x[2] = target)[3]

OpenKept(chunks) ==
    LET kept == SelectSeq(chunks, LAMBDA c :
                    ParseUrl(c.uri).ok /\ ~Includes(ToLowerCase(c.title), "search results"))
        ats(c) == \E a \in AtsNames : Includes(ParseUrl(c.uri).hostname, a)
    IN  SelectSeq(kept, ats) \o SelectSeq(kept, LAMBDA c : ~ats(c))

OpenKeptMemo == {<<c, OpenKept(c)>> : c \in ClassifierResponses}

\* C18 as stated: the OPEN task's search completes, and returns its valid
\* candidates scored 80 on an ATS host and 50 otherwise, with no
\* self-reference check, up to its quota.
C18_OpenTaskScored ==
    [][\A i \in 1..Len(tasks), ext \in ClassifierOutcomes :
          (tasks[i].type = "OPEN" /\ TaskSettle(i, ext)) =>
              calls'[i].links =
                  Slice((CHOOSE x \in OpenKeptMemo : x[1] = ext.chunks)[2], tasks[i].limit)]_vars

\* C19: a search that succeeds returns only candidates of its answer that
\* were classified valid, none with a uri that is not a well-formed absolute
\* URL, and raises nothing for the ones it drops (a task with a target that
\* was answered with a valid candidate returns a link); a response holds only
\* links some task returned.
C19_InvalidNeverReturned ==
    [][\A i \in 1..Len(tasks), ext \in ClassifierOutcomes :
          TaskSettle(i, ext) =>
              /\ calls'[i].state = "fulfilled"
              /\ \A n \in 1..Len(calls'[i].links) :
                     /\ \E c \in 1..Len(ext.chunks) : ext.chunks[c] = calls'[i].links[n]
                     /\ ClassOf(calls'[i].links[n], tasks[i].url).valid
                     /\ \E x \in CascadeMemo : x[1] = calls'[i].links[n]
              /\ ( /\ tasks[i].url # NULL
                   /\ \E c \in 1..Len(ext.chunks) : ClassOf(ext.chunks[c], tasks[i].url).valid )
                     => calls'[i].links # <<>>
              /\ jobResults' # NullObj =>
                     \A n \in 1..Len(jobResults'.links) :
                         \E k \in 1..Len(calls') :
                             \E m \in 1..Len(calls'[k].links) :
                                 calls'[k].links[m] = jobResults'.links[n]]_vars

\* a task was answered with a uri that does not parse next to a posting, it
\* returned the posting alone, and the response holds it
C19_Witness ==
    /\ Published /\ AllFulfilled
    /\ \E k \in 1..Len(calls) : calls[k].links = <<P1>>
    /\ \E n \in 1..Len(jobResults.links) : jobResults.links[n] = P1
    /\ \A n \in 1..Len(jobResults.links) : jobResults.links[n] # B1

\* ------------------------------------------------------------------------
\* Properties of the Application Drafter (SpecDraft)
\* ------------------------------------------------------------------------

\* the external call was rejected for billing or rate reasons
QuotaSignal(msg) == Includes(msg, "RESOURCE_EXHAUSTED") \/ Includes(msg, "429")

\* C20 as stated: a drafting call that fails is never repeated; the error
\* handleAutoFill catches is a rewrapped one, with a distinguishing message
\* around the original, when the call failed with a quota signal, and the
\* call's own error otherwise.
C20_DrafterErrorPolicy ==
    [][\A k \in 1..Len(drafts), ext \in {o \in DraftOutcomes : ~o.ok} :
          DraftSettle(k, ext) =>
              /\ Len(drafts') = Len(drafts) - 1
              /\ IF QuotaSignal(ext.message)
                 THEN consoleError' # ext.message /\ Includes(consoleError', ext.message)
                 ELSE consoleError' = ext.message]_vars

\* ------------------------------------------------------------------------
\* Properties of the runs of handleProcessAll (SpecOverlap)
\* ------------------------------------------------------------------------

\* the runs that are awaited
InFlight == (IF pc \in {"analysis", "search"} THEN 1 ELSE 0) + Len(earlier)

\* what the step that ends a run writes: SUCCESS and a link list, or ERROR,
\* a message and no link list
RunOutcome ==
    \/ status' = "success" /\ jobResults' # NullObj
    \/ status' = "error" /\ error' # NULL /\ jobResults' = jobResults

CallsOut(cs) == {i \in 1..Len(cs) : cs[i].state = "pending"}

\* the analysis outcomes that succeed
AnalysisOk == {o \in AnalysisOutcomes : o.ok}

\* C22 as stated: when the tasks of a request are planned, one search call
\* per task goes out.
C22_OneCallPerTask ==
    [][\A ext \in AnalysisOk, k \in BOOLEAN :
          AnalysisSettle(ext, k) => Cardinality(CallsOut(calls')) = Len(tasks')]_vars

\* C22 as the code decides it: when the tasks are planned, one search call
\* per task goes out if the client can be created and none if it cannot;
\* a call that settles, also with a failure, stays settled and is not issued
\* again, and the other tasks' calls are left as they are.
C22_AtMostOneCallPerTask ==
    /\ [][\A ext \in AnalysisOk, k \in BOOLEAN :
            AnalysisSettle(ext, k) =>
                /\ Len(calls') = Len(tasks')
                /\ Cardinality(CallsOut(calls')) = IF k THEN Len(tasks') ELSE 0]_vars
    /\ [][\A i \in 1..Len(calls), ext \in OverlapOutcomes :
            TaskSettle(i, ext) =>
                /\ calls'[i].state # "pending"
                /\ tasks' = tasks
                /\ \A j \in 1..Len(calls) : j # i => calls'[j] = calls[j]]_vars
    /\ [][\A i \in 1..Len(calls) :
            (calls[i].state # "pending" /\ tasks' = tasks) => calls'[i] = calls[i]]_vars

\* the call of one task has settled with nothing, and it stays settled while
\* the call of a sibling is still out and the request is awaited
C22_Witness ==
    /\ pc = "search" /\ status = "analyzing"
    /\ \E i, j \in 1..Len(calls) :
           /\ calls[i].state = "fulfilled" /\ calls[i].links = <<>>
           /\ calls[j] = Pending

\* ------------------------------------------------------------------------
\* Properties of the waterfall fill (Spec)
\* ------------------------------------------------------------------------

\* the tasks that returned the uri
TasksWith(uri) == {k \in 1..Len(calls) : uri \in TaskUris(k)}

\* the tier a uri is kept under: the highest tier (lowest number) of a task
\* that returned it
TierOf(uri) ==
    CHOOSE p \in {calls[k].priority : k \in TasksWith(uri)} :
        \A k \in TasksWith(uri) : p <= calls[k].priority

\* C23: a link some task returned whose uri is not in the response is left
\* out only when the response is full (jobCount links) and every link of the
\* response has a tier less than or equal to the tier of the task that
\* returned the link left out.
C23_HigherTierDisplaces ==
    (Published /\ AllFulfilled) =>
        \A k \in 1..Len(calls) :
            (TaskUris(k) \ ResultUris) # {} =>
                /\ Len(jobResults.links) = jobCount
                /\ \A n \in 1..Len(jobResults.links) :
                       TierOf(jobResults.links[n].uri) <= calls[k].priority

\* the response is full, holds a link of the USER task, and leaves out a
\* link of a PRESET task and a link of the OPEN task
C23_Witness ==
    /\ Published /\ AllFulfilled /\ Len(jobResults.links) = jobCount
    /\ \E n \in 1..Len(jobResults.links) : TierOf(jobResults.links[n].uri) = 1
    /\ \E k \in 1..Len(calls) : calls[k].priority = 2 /\ (TaskUris(k) \ ResultUris) # {}
    /\ \E k \in 1..Len(calls) : calls[k].priority = 3 /\ (TaskUris(k) \ ResultUris) # {}

\* ------------------------------------------------------------------------
\* Properties of one findRelevantJobs call (SpecSearch)
\* ------------------------------------------------------------------------

\* where a link stands in the answer of the search
IndexIn(chunks, link) ==
    CHOOSE p \in 1..Len(chunks) :
        chunks[p] = link /\ \A q \in 1..(p - 1) : chunks[q] # link

\* links is at most limit long, holds no uri twice, is in non-increasing
\* order of score, and keeps links of equal score in the order of the answer
RankedSelection(links, chunks, task) ==
    /\ Len(links) <= task.limit
    /\ \A n, m \in 1..Len(links) :
           n < m =>
               /\ links[n].uri # links[m].uri
               /\ ClassOf(links[n], task.url).score >= ClassOf(links[m], task.url).score
               /\ ClassOf(links[n], task.url).score = ClassOf(links[m], task.url).score
                      => IndexIn(chunks, links[n]) < IndexIn(chunks, links[m])

\* C24: the links one call of findRelevantJobs returns are at most limit
\* many, have pairwise distinct uris, are in non-increasing order of score,
\* and links of equal score keep the order the search returned them in.
C24_RankedDistinctWithinLimit ==
    [][\A i \in 1..Len(tasks), ext \in ClassifierOutcomes :
          (TaskSettle(i, ext) /\ calls'[i].state = "fulfilled")
              => RankedSelection(calls'[i].links, ext.chunks, tasks[i])]_vars

\* a task with limit 2 was answered with four links, one uri twice, and
\* returned two; a task with limit 1 returned one link; a task returned two
\* links of equal score
C24_Witness ==
    /\ \E k \in 1..Len(calls) :
           /\ Returned(k) /\ Len(calls[k].links) = 2
           /\ ClassOf(calls[k].links[1], tasks[k].url).score
                  = ClassOf(calls[k].links[2], tasks[k].url).score
    /\ \E k \in 1..Len(calls) :
           /\ Returned(k) /\ tasks[k].limit = 2 /\ tasks[k].url # NULL
           /\ calls[k].links = <<A1, T1>>
    /\ \E k \in 1..Len(calls) :
           Returned(k) /\ tasks[k].limit = 1 /\ Len(calls[k].links) = 1

\* ------------------------------------------------------------------------
\* Properties of the order of analysis and search (SpecOverlap)
\* ------------------------------------------------------------------------

\* a step that starts a run
StartsRun == \E k \in BOOLEAN : HandleProcessAll(k) \/ HandleProcessAllOverlapping(k)

\* C25: a run calls the analysis once, when it starts; while the analysis is
\* awaited the run has planned no task and issued no search; the searches
\* are issued by the step in which the analysis settles successfully; and
\* when the analysis fails the run issues no search and ends with status
\* ERROR.
C25_AnalysisBeforeSearch ==
    /\ [](pc = "analysis" => tasks = <<>> /\ calls = <<>>)
    /\ [](\A k \in 1..Len(earlier) :
              earlier[k].pc = "analysis" => earlier[k].tasks = <<>> /\ earlier[k].calls = <<>>)
    /\ [][(pc' = "analysis" /\ (pc # "analysis" \/ Len(earlier') > Len(earlier))) => StartsRun]_vars
    /\ [][(calls = <<>> /\ calls' # <<>>)
              => \E ext \in AnalysisOk, k \in BOOLEAN : AnalysisSettle(ext, k)]_vars
    /\ [][\A ext \in AnalysisOutcomes \ AnalysisOk, k \in BOOLEAN :
              AnalysisSettle(ext, k)
                  => /\ status' = "error" /\ error' # NULL
                     /\ pc' = "returned" /\ tasks' = <<>> /\ calls' = <<>>
                     /\ jobResults' = jobResults]_vars

\* the analysis of the only run failed: no task, no call, status ERROR
C25_Witness ==
    /\ status = "error" /\ error = SoftMessage
    /\ pc = "returned" /\ earlier = <<>>
    /\ tasks = <<>> /\ calls = <<>>
    /\ analysisResult = NullObj /\ jobResults = NullObj

\* ------------------------------------------------------------------------
\* Properties of the displayed state across runs (SpecOverlap)
\* ------------------------------------------------------------------------

\* C26: with status SUCCESS both analysisResult and jobResults are set, and
\* with status ANALYZING jobResults is null.
C26_ResultsMatchStatus ==
    /\ status = "success" => (analysisResult # NullObj /\ jobResults # NullObj)
    /\ status = "analyzing" => jobResults = NullObj

\* C27: while status is ANALYZING no control that starts handleProcessAll
\* is available, so that at most one run is in flight.
C27_NoStartWhileAnalyzing ==
    /\ status = "analyzing" => ~CanStartRun
    /\ InFlight <= 1

\* ------------------------------------------------------------------------
\* Properties of the application modal (SpecDraft)
\* ------------------------------------------------------------------------

\* C28: whenever the modal shows application data, its job title is the
\* title of the posting the data was generated from.
C28_TitleMatchesData ==
    applicationData # NullObj => selectedJobTitle = draftedFor.title

\* ------------------------------------------------------------------------
\* Properties of handleEdit (SpecOverlap)
\* ------------------------------------------------------------------------

\* C29: handleEdit sets status to IDLE, clears analysisResult, jobResults,
\* error and the API-key prompt, and leaves resume, coverLetter, targetUrl
\* and jobCount as they are.
C29_EditKeepsInputs ==
    [][HandleEdit =>
          /\ status' = "idle"
          /\ analysisResult' = NullObj /\ jobResults' = NullObj
          /\ error' = NULL /\ showApiKeyModal' = FALSE
          /\ resume' = resume /\ coverLetter' = coverLetter
          /\ targetUrl' = targetUrl /\ jobCount' = jobCount]_vars

\* handleEdit has run while a request was awaited: only it leaves status
\* IDLE with a run in flight
C29_Witness ==
    /\ status = "idle" /\ pc \in {"analysis", "search"}
    /\ analysisResult = NullObj /\ jobResults = NullObj
    /\ error = NULL /\ ~showApiKeyModal
    /\ resume = "text" /\ coverLetter = "text" /\ jobCount = 1

\* ------------------------------------------------------------------------
\* components/FileUpload.tsx: one component per document, each with its own
\* activeTab and isProcessing; reading is the read its handleFileUpload
\* awaits
\* ------------------------------------------------------------------------

\* the branches of handleFileUpload
FileKinds == {"pdf", "docx", "text"}

\* the read each branch starts
FirstRead(kind) ==
    IF kind = "pdf" THEN "readAsDataURL"
    ELSE IF kind = "docx" THEN "arrayBuffer"
    ELSE "text"

\* the base64 payload of a data URL
PdfData == "JVBERi0xLjQ="

\* onChange of the component with label l: setResume or setCoverLetter
SetDoc(l, d) ==
    /\ resume' = IF l = "Resume" THEN d ELSE resume
    /\ coverLetter' = IF l = "Cover Letter" THEN d ELSE coverLetter

\* what no step of a FileUpload component writes
aboveUpload ==
    << service, targetUrl, jobCount, resultVars, keyVars, runVars, earlier, draftVars >>

\* a file of the kind is chosen in the file input, which is rendered on the
\* upload tab and disabled while isProcessing; a change event without a file
\* returns at once and changes nothing
HandleFileUpload(l, kind) ==
    /\ activeTab[l] = "upload" /\ ~isProcessing[l]
    /\ isProcessing' = [isProcessing EXCEPT ![l] = TRUE]
    /\ reading' = [reading EXCEPT ![l] = FirstRead(kind)]
    /\ UNCHANGED << activeTab, resume, coverLetter, aboveUpload >>

\* reader.onload: the only handler the FileReader is given
ReaderLoad(l) ==
    /\ reading[l] = "readAsDataURL"
    /\ SetDoc(l, PdfData)
    /\ isProcessing' = [isProcessing EXCEPT ![l] = FALSE]
    /\ reading' = [reading EXCEPT ![l] = "none"]
    /\ UNCHANGED << activeTab, aboveUpload >>

\* the read fails: the FileReader fires error, for which no handler is set,
\* and the try block was left when readAsDataURL returned
ReaderError(l) ==
    /\ reading[l] = "readAsDataURL"
    /\ reading' = [reading EXCEPT ![l] = "none"]
    /\ UNCHANGED << activeTab, isProcessing, resume, coverLetter, aboveUpload >>

\* the catch block of handleFileUpload
UploadCatch(l) ==
    /\ isProcessing' = [isProcessing EXCEPT ![l] = FALSE]
    /\ reading' = [reading EXCEPT ![l] = "none"]
    /\ UNCHANGED << activeTab, resume, coverLetter >>

\* await file.arrayBuffer() settles
ArrayBufferSettle(l, ok) ==
    /\ reading[l] = "arrayBuffer"
    /\ IF ok
       THEN /\ reading' = [reading EXCEPT ![l] = "extractRawText"]
            /\ UNCHANGED << activeTab, isProcessing, resume, coverLetter >>
       ELSE UploadCatch(l)
    /\ UNCHANGED aboveUpload

\* await mammoth.extractRawText({ arrayBuffer }) settles
ExtractSettle(l, ok) ==
    /\ reading[l] = "extractRawText"
    /\ IF ok
       THEN /\ SetDoc(l, "text")
            /\ isProcessing' = [isProcessing EXCEPT ![l] = FALSE]
            /\ activeTab' = [activeTab EXCEPT ![l] = "paste"]
            /\ reading' = [reading EXCEPT ![l] = "none"]
       ELSE UploadCatch(l)
    /\ UNCHANGED aboveUpload

\* await file.text() settles
TextSettle(l, ok) ==
    /\ reading[l] = "text"
    /\ IF ok
       THEN /\ SetDoc(l, "text")
            /\ isProcessing' = [isProcessing EXCEPT ![l] = FALSE]
            /\ activeTab' = [activeTab EXCEPT ![l] = "paste"]
            /\ reading' = [reading EXCEPT ![l] = "none"]
       ELSE UploadCatch(l)
    /\ UNCHANGED aboveUpload

\* the Upload and Editor buttons
SetActiveTab(l, tab) ==
    /\ activeTab[l] # tab
    /\ activeTab' = [activeTab EXCEPT ![l] = tab]
    /\ UNCHANGED << isProcessing, reading, resume, coverLetter, aboveUpload >>

\* ------------------------------------------------------------------------
\* Specification of the two upload components: files are chosen and their
\* reads end, successfully or not
\* ------------------------------------------------------------------------

InitUpload ==
    /\ service \in {1, 2}
    /\ resume = "" /\ coverLetter = ""
    /\ targetUrl = "" /\ jobCount = 3
    /\ status = "idle" /\ analysisResult = NullObj /\ jobResults = NullObj /\ error = NULL
    /\ showApiKeyModal = FALSE /\ apiKeyCheckDone = TRUE /\ isInitialApiKeyCheck = FALSE
    /\ pc = "none" /\ tasks = <<>> /\ calls = <<>>
    /\ DraftIdle /\ UploadIdle /\ earlier = <<>>

NextUpload ==
    \/ \E l \in Labels, kind \in FileKinds : HandleFileUpload(l, kind)
    \/ \E l \in Labels : ReaderLoad(l)
    \/ \E l \in Labels : ReaderError(l)
    \/ \E l \in Labels, ok \in BOOLEAN : ArrayBufferSettle(l, ok)
    \/ \E l \in Labels, ok \in BOOLEAN : ExtractSettle(l, ok)
    \/ \E l \in Labels, ok \in BOOLEAN : TextSettle(l, ok)
    \/ \E l \in Labels, tab \in {"upload", "paste"} : SetActiveTab(l, tab)

\* every read that was started ends, with a result or with an error
ReadsSettle ==
    \A l \in Labels :
        /\ WF_vars(ReaderLoad(l) \/ ReaderError(l))
        /\ WF_vars(\E ok \in BOOLEAN : ArrayBufferSettle(l, ok))
        /\ WF_vars(\E ok \in BOOLEAN : ExtractSettle(l, ok))
        /\ WF_vars(\E ok \in BOOLEAN : TextSettle(l, ok))

SpecUpload == InitUpload /\ [][NextUpload]_vars /\ ReadsSettle

\* ------------------------------------------------------------------------
\* Properties of the upload components (SpecUpload)
\* ------------------------------------------------------------------------

\* C30: after a file is chosen, isProcessing of that component eventually
\* returns to false, whatever the kind of the file and whether its read
\* succeeds or fails.
C30_ProcessingEnds ==
    \A l \in Labels : isProcessing[l] ~> ~isProcessing[l]

====
